---- MODULE Spec2Model ----
(***************************************************************************)
(* Sector money-flow dashboard: the incremental price fetcher              *)
(* (fetch_yahoo_finance), the macro fetcher (get_fred_data), the batch     *)
(* pipeline update_data.main that publishes data/dashboard_data.json, and  *)
(* the serving endpoint main.get_data.                                     *)
(*                                                                         *)
(* Dates are day numbers.  Prices and volumes are small integers; derived  *)
(* ratios are exact fractions [n, d] (d = 0 stands for the float results   *)
(* of a division by zero: n = 0 is NaN, n > 0 is +inf, n < 0 is -inf).     *)
(***************************************************************************)
EXTENDS Integers, Sequences, FiniteSets, TLC

\* ---------------------------------------------------------------- bounds
\* Pipeline runs (processes started) in one behaviour.
MaxRuns == 2
\* Requests served by get_data in one behaviour of SpecServe.
MaxRequests == 2
\* The calendar day of the first state; the clock may advance one day.
StartDay == 40
\* Rows the upstream returns for range=1y and range=5d (scaled down).
LongRange == 22
ShortRange == 3
\* classify is exercised on the grid -Grid..Grid of both arguments.
Grid == 5
\* Denominator of the small indicator values the rounding is exercised on.
FineDen == 40000

LastDay == StartDay + 1

\* ------------------------------------------------------- program constants
\* update_data.py:7-42: the first tracked symbols of SECTORS, in
\* configuration order, with their name and group.
SECTORS == << [symbol |-> "XLK", name |-> "Technology",
               group |-> "Equities - Core Sectors"],
              [symbol |-> "XLF", name |-> "Financials",
               group |-> "Equities - Core Sectors"] >>

BENCHMARK == "SPY"

SYMBOLS == {BENCHMARK} \cup {SECTORS[i].symbol : i \in DOMAIN SECTORS}

\* update_data.py:117-125: the first entries of series_ids, in order.
series_ids == << [series |-> "DGS2",  name |-> "2Y Treasury Yield"],
                 [series |-> "DGS10", name |-> "10Y Treasury Yield"] >>

\* A missing value (JSON null, pandas NaN) in an upstream quote array.
NaN == -1

\* len(aligned) < 22
MinRows == 22
\* rolling(window=21), rs_line.iloc[-21]
Window == 21
\* high_low.replace(0, 0.001): 1 / 0.001
EpsInverse == 1000
\* round(current_cmf, 4) and round(rs_pct_change, 2), as powers of ten
CmfScale == 10000
RsScale == 100

\* ------------------------------------------------------------- fractions
Abs(x) == IF x < 0 THEN -x ELSE x

RECURSIVE GCD(_, _)
GCD(a, b) == IF b = 0 THEN a ELSE GCD(b, a % b)

\* The fraction n/d in lowest terms with d >= 0.
Frac(n, d) ==
    IF d = 0 THEN [n |-> IF n > 0 THEN 1 ELSE IF n < 0 THEN -1 ELSE 0, d |-> 0]
    ELSE LET g == GCD(Abs(n), Abs(d))
             s == IF d < 0 THEN -1 ELSE 1
         IN  [n |-> s * (n \div g), d |-> s * (d \div g)]

FracAdd(a, b) ==
    IF a.d = 0 THEN (IF b.d = 0 /\ b.n # a.n THEN Frac(0, 0) ELSE a)
    ELSE IF b.d = 0 THEN b
    ELSE Frac(a.n * b.d + b.n * a.d, a.d * b.d)

\* Float comparisons with zero: NaN compares false with everything.
Gt0(x) == x.n > 0
Lt0(x) == x.n < 0
Le0(x) == x.d # 0 /\ x.n <= 0

\* round(x, k) with scale = 10^k, ties to even; inf and NaN are kept.
\* The result is the fraction (rounded numerator) / scale, unreduced.
round(x, scale) ==
    IF x.d = 0 THEN x
    ELSE LET num == x.n * scale
             q   == num \div x.d            \* floor
             r   == num - q * x.d           \* 0 <= r < d
             up  == \/ 2 * r > x.d
                    \/ (2 * r = x.d /\ q % 2 # 0)
         IN  [n |-> IF up THEN q + 1 ELSE q, d |-> scale]

\* ---------------------------------------------------------------- series
\* One PriceRecord / data-frame row, indexed by date.
Rec(d, o, h, l, c, v) ==
    [date |-> d, open |-> o, high |-> h, low |-> l, close |-> c, volume |-> v]

Dates(s) == {s[i].date : i \in DOMAIN s}

\* Strictly ascending by date (hence no duplicate dates).
StrictlyAscending(s) ==
    \A i \in 1..(Len(s) - 1) : s[i].date < s[i + 1].date

\* The rows s[k] with place[k] > 0, row k at position place[k] of the result.
\* (CHOOSE over a one-element set: its member is evaluated once.)
Placed(s, place, n) ==
    CHOOSE r \in { [p \in 1..n |-> s[CHOOSE k \in DOMAIN s : f[k] = p]] :
                   f \in {place} } : TRUE

\* DataFrame.sort_index(): ascending by date (rows of the same date keep
\* their order).
sort_index(s) ==
    Placed(s,
           [k \in DOMAIN s |->
              Cardinality({j \in DOMAIN s :
                             \/ s[j].date < s[k].date
                             \/ (s[j].date = s[k].date /\ j <= k)})],
           Len(s))

\* The rows of s at the positions in keep, in their order.
Rows(s, keep) ==
    Placed(s,
           [k \in DOMAIN s |->
              IF k \in keep THEN Cardinality({j \in keep : j <= k}) ELSE 0],
           Cardinality(keep))

\* s[~s.index.duplicated(keep='last')]: for each date the last row, in place.
drop_duplicated_keep_last(s) ==
    Rows(s, {k \in DOMAIN s :
               \A j \in (k + 1)..Len(s) : s[j].date # s[k].date})

\* keep='first' (not what the code does).
drop_duplicated_keep_first(s) ==
    Rows(s, {k \in DOMAIN s : \A j \in 1..(k - 1) : s[j].date # s[k].date})

\* DataFrame.dropna(): rows with any missing field are dropped.
HasNaN(r) == NaN \in {r.open, r.high, r.low, r.close, r.volume}
dropna(s) == SelectSeq(s, LAMBDA r : ~HasNaN(r))

\* ------------------------------------------------------ price cache files
\* data/<symbol>.csv: absent, or a header line and one text line per row
\* with the columns date,open,high,low,close,volume.
NoFile == [exists |-> FALSE, lines |-> <<>>]

to_csv(df) ==
    [exists |-> TRUE,
     lines  |-> [i \in DOMAIN df |->
                   <<df[i].date, df[i].open, df[i].high, df[i].low,
                     df[i].close, df[i].volume>>]]

\* pd.read_csv(file_path, index_col='date', parse_dates=['date'])
read_csv(file) ==
    [i \in DOMAIN file.lines |->
        Rec(file.lines[i][1], file.lines[i][2], file.lines[i][3],
            file.lines[i][4], file.lines[i][5], file.lines[i][6])]

\* ------------------------------------------------------ upstream price API
\* The daily candle the upstream reports for a symbol and a date.  rev = 0
\* is the first publication, rev = 1 a later revision with other values.
Price(symbol, d) ==
    IF symbol = "SPY" THEN 20
    ELSE IF symbol = "XLK" THEN 10 + (d % 3)
    ELSE 14 - (d % 3)

Quote(symbol, rev, d) ==
    LET p    == Price(symbol, d)
        flat == d % 5 = 0                       \* a day with high = low
        top  == (symbol = "XLF") # (rev = 0)    \* close at the high
    IN  IF flat THEN Rec(d, p, p, p, p, 1 + (d % 2))
        ELSE Rec(d, p, p + 1, p - 1, IF top THEN p + 1 ELSE p - 1, 1 + (d % 2))

Reversed(s) == [i \in DOMAIN s |-> s[Len(s) + 1 - i]]

RangeLen(range_val) == IF range_val = "1y" THEN LongRange ELSE ShortRange

\* The rows of the window of n days that ends the day before t.
Candles(symbol, rev, n, t) == [i \in 1..n |-> Quote(symbol, rev, t - n - 1 + i)]

\* A response of GET .../v8/finance/chart/<symbol>?interval=1d&range=...:
\* whether requests.get raised, the status code, whether chart.result is
\* present, and the rows of the parallel timestamp and quote arrays
\* (has_arrays = FALSE: 'timestamp' or the quote object is missing or empty;
\* equal_lengths = FALSE: the arrays differ in length).
Payload(rows) ==
    [exception |-> FALSE, status_code |-> 200, has_result |-> TRUE,
     has_arrays |-> TRUE, equal_lengths |-> TRUE, rows |-> rows]

\* The complete window of final candles, in order.
NominalResponse(symbol, range_val, t) ==
    Payload(Candles(symbol, 0, RangeLen(range_val), t))

\* The upstream attempt fails: a network error or timeout, a status other
\* than 200, no chart.result, no timestamp or quote arrays, arrays of
\* different lengths.
FailedResponses(rows) ==
    { [Payload(<<>>) EXCEPT !.exception = TRUE],
      [Payload(<<>>) EXCEPT !.status_code = 429],
      [Payload(<<>>) EXCEPT !.has_result = FALSE],
      [Payload(<<>>) EXCEPT !.has_arrays = FALSE],
      [Payload(rows) EXCEPT !.equal_lengths = FALSE] }

\* Other responses the upstream can give.
OddResponses(symbol, range_val, t) ==
    LET n   == RangeLen(range_val)
        nom == Candles(symbol, 0, n, t)
    IN  { \* the window ends with today's live candle
          Payload(Tail(nom) \o <<Quote(symbol, 0, t)>>),
          \* the upstream revised its history
          Payload(Candles(symbol, 1, n, t)),
          \* timestamps out of order, two of them on the same date
          Payload(Reversed(nom) \o <<Quote(symbol, 1, t - 1)>>),
          \* a candle with a missing close
          Payload([nom EXCEPT ![n].close = NaN]),
          \* only today's live candle
          Payload(<<Quote(symbol, 0, t)>>) }
        \cup FailedResponses(nom)

\* ----------------------------------------------------- fetch_yahoo_finance
\* range_val: "5d" when the cache file exists, "1y" otherwise.
RangeFor(file) == IF file.exists THEN "5d" ELSE "1y"

\* The try block reaches the data frame construction without an exception
\* and with every `if` taken; pd.DataFrame raises on arrays of different
\* lengths.
AttemptOk(resp) ==
    /\ ~resp.exception
    /\ resp.status_code = 200
    /\ resp.has_result
    /\ resp.has_arrays
    /\ resp.rows # <<>>
    /\ resp.equal_lengths

\* pd.concat([existing_df, new_df]), drop duplicated dates keeping the last,
\* sort_index.
merge_keep_first(existing_df, new_df) ==
    sort_index(drop_duplicated_keep_first(existing_df \o new_df))

merge_window_only(existing_df, new_df) ==
    sort_index(drop_duplicated_keep_last(new_df))

merge(existing_df, new_df) ==
    sort_index(drop_duplicated_keep_last(existing_df \o new_df))

\* df[df.index < today]
same_day_filter_le(df, t) == SelectSeq(df, LAMBDA r : r.date <= t)

same_day_filter(df, t) == SelectSeq(df, LAMBDA r : r.date < t)

\* Lines 102-107: the cached series when it is not empty, else the error.
fallback(existing_df, t) ==
    IF existing_df # <<>>
    THEN [raised |-> FALSE, df |-> same_day_filter(existing_df, t)]
    ELSE [raised |-> TRUE, df |-> <<>>]

fetch_yahoo_finance_writes_on_failure(symbol, resp, file, t) ==
    LET existing_df == IF file.exists THEN read_csv(file) ELSE <<>>
        range_val   == RangeFor(file)
        new_df      == dropna(resp.rows)
    IN  IF AttemptOk(resp)
        THEN CHOOSE r \in
                { [symbol |-> symbol, range_val |-> range_val,
                   fetched |-> TRUE, raised |-> FALSE, df |-> df,
                   file |-> to_csv(df), before |-> file,
                   new_df |-> new_df, today |-> t] :
                  df \in { same_day_filter(
                              IF existing_df # <<>>
                              THEN merge(existing_df, new_df)
                              ELSE new_df, t) } } : TRUE
        ELSE CHOOSE r \in
                { [symbol |-> symbol, range_val |-> range_val,
                   fetched |-> FALSE, raised |-> fb.raised, df |-> fb.df,
                   file |-> to_csv(fb.df), before |-> file, new_df |-> <<>>,
                   today |-> t] :
                  fb \in { fallback(existing_df, t) } } : TRUE

\* The whole call: what it returns or raises, and the cache file afterwards.
fetch_yahoo_finance(symbol, resp, file, t) ==
    LET existing_df == IF file.exists THEN read_csv(file) ELSE <<>>
        range_val   == RangeFor(file)
        new_df      == dropna(resp.rows)
    IN  IF AttemptOk(resp)
        THEN CHOOSE r \in
                { [symbol |-> symbol, range_val |-> range_val,
                   fetched |-> TRUE, raised |-> FALSE, df |-> df,
                   file |-> to_csv(df), before |-> file,
                   new_df |-> new_df, today |-> t] :
                  df \in { same_day_filter(
                              IF existing_df # <<>>
                              THEN merge(existing_df, new_df)
                              ELSE new_df, t) } } : TRUE
        ELSE CHOOSE r \in
                { [symbol |-> symbol, range_val |-> range_val,
                   fetched |-> FALSE, raised |-> fb.raised, df |-> fb.df,
                   file |-> file, before |-> file, new_df |-> <<>>,
                   today |-> t] :
                  fb \in { fallback(existing_df, t) } } : TRUE

\* No call of fetch_yahoo_finance yet.
NoCall ==
    [symbol |-> "", range_val |-> "", fetched |-> FALSE, raised |-> FALSE,
     df |-> <<>>, file |-> NoFile, before |-> NoFile, new_df |-> <<>>,
     today |-> 0]

\* ------------------------------------------------------------------ align
\* pd.merge(sector_df, spy_df, left_index=True, right_index=True,
\*          suffixes=('', '_spy')): inner join on the date index, one row for
\* every pair of a sector row and a benchmark row with the same date, in
\* the order of the sector rows.
Joined(r, b) ==
    [date |-> r.date, open |-> r.open, high |-> r.high, low |-> r.low,
     close |-> r.close, volume |-> r.volume,
     open_spy |-> b.open, high_spy |-> b.high, low_spy |-> b.low,
     close_spy |-> b.close, volume_spy |-> b.volume]

RECURSIVE align(_, _)
align(sector_df, spy_df) ==
    IF sector_df = <<>> THEN <<>>
    ELSE LET r       == Head(sector_df)
             matches == SelectSeq(spy_df, LAMBDA b : b.date = r.date)
         IN  [i \in DOMAIN matches |-> Joined(r, matches[i])]
             \o align(Tail(sector_df), spy_df)

\* ------------------------------------------------------------- indicators
\* if len(aligned) < 22: continue
insufficient_off_by_one(aligned) == Len(aligned) < MinRows - 1

insufficient(aligned) == Len(aligned) < MinRows

\* ((close - low) - (high - close)) / high_low, high_low 0 replaced by 0.001
mf_multiplier(a) ==
    LET high_low == a.high - a.low
        num      == (a.close - a.low) - (a.high - a.close)
    IN  IF high_low = 0 THEN Frac(num * EpsInverse, 1) ELSE Frac(num, high_low)

mf_volume(a) == LET m == mf_multiplier(a) IN Frac(m.n * a.volume, m.d)

RECURSIVE SumFrac(_, _, _)
SumFrac(aligned, from, to) ==
    IF from > to THEN Frac(0, 1)
    ELSE FracAdd(mf_volume(aligned[from]), SumFrac(aligned, from + 1, to))

RECURSIVE SumVolume(_, _, _)
SumVolume(aligned, from, to) ==
    IF from > to THEN 0
    ELSE aligned[from].volume + SumVolume(aligned, from + 1, to)

\* cmf_21.iloc[-1]: the sums over the last 21 rows.
current_cmf(aligned) ==
    LET n == Len(aligned)
        s == SumFrac(aligned, n - Window + 1, n)
        v == SumVolume(aligned, n - Window + 1, n)
    IN  Frac(s.n, s.d * v)

\* rs_line = close / close_spy; current_rs = rs_line.iloc[-1];
\* past_rs = rs_line.iloc[-21]; ((current_rs - past_rs) / past_rs) * 100
rs_pct_change_22_rows(aligned) ==
    LET n    == Len(aligned)
        cur  == aligned[n]
        past == aligned[n - Window]
    IN  Frac((cur.close * past.close_spy - past.close * cur.close_spy) * 100,
             past.close * cur.close_spy)

rs_pct_change(aligned) ==
    LET n    == Len(aligned)
        cur  == aligned[n]
        past == aligned[n - Window + 1]
    IN  Frac((cur.close * past.close_spy - past.close * cur.close_spy) * 100,
             past.close * cur.close_spy)

\* --------------------------------------------------------------- classify
\* The if / elif chain of lines 194-205.
classify_le_first(cmf, rs) ==
    IF Gt0(cmf) /\ Gt0(rs)
    THEN [quadrant |-> "Leading / Accumulation", color |-> "green"]
    ELSE IF Le0(cmf) /\ Le0(rs)
    THEN [quadrant |-> "Weakening / Distribution", color |-> "red"]
    ELSE IF Gt0(cmf) /\ Le0(rs)
    THEN [quadrant |-> "Improving", color |-> "orange"]
    ELSE [quadrant |-> "Deteriorating", color |-> "yellow"]

classify_ge_third(cmf, rs) ==
    IF Gt0(cmf) /\ Gt0(rs)
    THEN [quadrant |-> "Leading / Accumulation", color |-> "green"]
    ELSE IF Lt0(cmf) /\ Lt0(rs)
    THEN [quadrant |-> "Weakening / Distribution", color |-> "red"]
    ELSE IF ~Lt0(cmf) /\ Le0(rs)
    THEN [quadrant |-> "Improving", color |-> "orange"]
    ELSE [quadrant |-> "Deteriorating", color |-> "yellow"]

classify(cmf, rs) ==
    IF Gt0(cmf) /\ Gt0(rs)
    THEN [quadrant |-> "Leading / Accumulation", color |-> "green"]
    ELSE IF Lt0(cmf) /\ Lt0(rs)
    THEN [quadrant |-> "Weakening / Distribution", color |-> "red"]
    ELSE IF Gt0(cmf) /\ Le0(rs)
    THEN [quadrant |-> "Improving", color |-> "orange"]
    ELSE [quadrant |-> "Deteriorating", color |-> "yellow"]

\* The body of the loop of main / get_data for one symbol, given the
\* outcome `call` of fetch_yahoo_finance(symbol) and, when it returned, the
\* aligned pair: the results entry that is appended, or none (exception
\* caught, or not enough data).
Published_label_of_rounded(info, cmf, rs, q) ==
    [symbol |-> info.symbol, name |-> info.name, group |-> info.group,
     cmf |-> round(cmf, CmfScale), rs_momentum |-> round(rs, RsScale),
     quadrant |-> classify(round(cmf, CmfScale), round(rs, RsScale)).quadrant,
     color |-> classify(round(cmf, CmfScale), round(rs, RsScale)).color]

Published(info, cmf, rs, q) ==
    [symbol |-> info.symbol, name |-> info.name, group |-> info.group,
     cmf |-> round(cmf, CmfScale), rs_momentum |-> round(rs, RsScale),
     quadrant |-> q.quadrant, color |-> q.color]

Entry(info, aligned) ==
    CHOOSE r \in
        { Published(info, x[1], x[2], classify(x[1], x[2])) :
          x \in { <<current_cmf(aligned), rs_pct_change(aligned)>> } } : TRUE

process_symbol(info, call, aligned) ==
    IF call.raised THEN <<>>
    ELSE IF insufficient(aligned) THEN <<>> ELSE <<Entry(info, aligned)>>

\* ---------------------------------------------------------- get_fred_data
\* A JSON value that is either a list of observations or the error object.
MacroList(items) == [is_list |-> TRUE, items |-> items, error |-> ""]
MacroError(msg)  == [is_list |-> FALSE, items |-> <<>>, error |-> msg]

\* data/macro_cache.csv with the columns indicator,value,date,series.
NoMacroFile == [exists |-> FALSE, lines |-> <<>>]

\* An observation as fetched: value and date are JSON strings.
Observation(entry, value, date) ==
    [indicator |-> entry.name, value |-> [text |-> value, is_number |-> FALSE],
     date |-> date, series |-> entry.series]

\* pd.DataFrame(macro_data).to_csv(file_path, index=False)
macro_to_csv(macro_data) ==
    [exists |-> TRUE,
     lines  |-> [k \in DOMAIN macro_data |->
                   <<macro_data[k].indicator, macro_data[k].value.text,
                     macro_data[k].date, macro_data[k].series>>]]

\* pd.read_csv(file_path).to_dict('records'): the value column is parsed
\* as numbers when every cell is numeric and stays text otherwise (the
\* source's "." sentinel).
macro_read_csv(file) ==
    LET numeric == \A k \in DOMAIN file.lines : file.lines[k][2] # "."
    IN  [k \in DOMAIN file.lines |->
            [indicator |-> file.lines[k][1],
             value     |-> [text |-> file.lines[k][2], is_number |-> numeric],
             date      |-> file.lines[k][3],
             series    |-> file.lines[k][4]]]

\* The outcome of the request for each series: "ok" (an observation with a
\* numeric value), "dot" (an observation whose value is "."), "fail"
\* (exception, status other than 200, or no observations).
NominalBatch == [k \in DOMAIN series_ids |-> "ok"]
Batches == [DOMAIN series_ids -> {"ok", "dot", "fail"}]

RECURSIVE Collect(_, _, _)
Collect(batch, k, t) ==
    IF k > Len(series_ids) THEN <<>>
    ELSE (IF batch[k] = "fail" THEN <<>>
          ELSE <<Observation(series_ids[k],
                             IF batch[k] = "dot" THEN "." ELSE "4.25", t - 1)>>)
         \o Collect(batch, k + 1, t)

no_key_empty_list == MacroList(<<>>)

\* Lines 111-113: the credential is missing.
no_key == MacroError("FRED_API_KEY not found in environment")

get_fred_data_no_fallback(key, batch, file, t) ==
    LET macro_data == Collect(batch, 1, t)
    IN  IF ~key THEN [ret |-> no_key, file |-> file]
        ELSE IF macro_data # <<>>
        THEN [ret |-> MacroList(macro_data), file |-> macro_to_csv(macro_data)]
        ELSE [ret |-> MacroList(<<>>), file |-> file]

get_fred_data_append(key, batch, file, t) ==
    LET macro_data == Collect(batch, 1, t)
    IN  IF ~key THEN [ret |-> no_key, file |-> file]
        ELSE IF macro_data # <<>>
        THEN [ret  |-> MacroList(macro_data),
              file |-> [exists |-> TRUE,
                        lines  |-> file.lines \o macro_to_csv(macro_data).lines]]
        ELSE IF file.exists
        THEN [ret |-> MacroList(macro_read_csv(file)), file |-> file]
        ELSE [ret |-> MacroList(<<>>), file |-> file]

\* The whole call: what it returns and the macro cache file afterwards.
get_fred_data(key, batch, file, t) ==
    LET macro_data == Collect(batch, 1, t)
    IN  IF ~key THEN [ret |-> no_key, file |-> file]
        ELSE IF macro_data # <<>>
        THEN [ret |-> MacroList(macro_data), file |-> macro_to_csv(macro_data)]
        ELSE IF file.exists
        THEN [ret |-> MacroList(macro_read_csv(file)), file |-> file]
        ELSE [ret |-> MacroList(<<>>), file |-> file]

\* --------------------------------------------------------------- artifact
\* data/dashboard_data.json.  last_updated is the clock at assembly; the
\* model's clock has the resolution of a day.
NoArtifact ==
    [exists |-> FALSE, sectors |-> <<>>, macro |-> MacroList(<<>>),
     last_updated |-> 0]

final_output(sectors, macro, t) ==
    [exists |-> TRUE, sectors |-> sectors, macro |-> macro, last_updated |-> t]

\* What get_data returns: nothing yet, the error object, or the data.
NoResponse ==
    [kind |-> "none", sectors |-> <<>>, macro |-> MacroList(<<>>)]
ErrorResponse ==
    [kind |-> "error", sectors |-> <<>>, macro |-> MacroList(<<>>)]
DataResponse(sectors, macro) ==
    [kind |-> "data", sectors |-> sectors, macro |-> macro]

\* ------------------------------------------------------------------ state
VARIABLES
    today,        \* datetime.date.today()
    cache,        \* symbol -> data/<symbol>.csv
    macro_cache,  \* data/macro_cache.csv
    artifact,     \* data/dashboard_data.json
    api_key,      \* whether FRED_API_KEY is set in the process environment
    pc,           \* position of the running main() or get_data()
    i,            \* index into SECTORS of the symbol processed next
    spy_df,       \* local of main / get_data
    results,      \* local of main / get_data
    macro_data,   \* local of main
    response,     \* what the last get_data returned
    last,         \* the last call of fetch_yahoo_finance of this run
    log,          \* per processed symbol of this run: raised, aligned rows
    odd,          \* this run has met its one deviation from the nominal
                  \* environment (an odd response, a missing credential)
    runs,         \* runs / requests started
    artifact0,    \* the artifact when this run started
    written,      \* this run has written the artifact
    cls,          \* SpecClassify: the arguments and result of classify
    last_batch    \* the outcome per series of the last call of get_fred_data

vars == << today, cache, macro_cache, artifact, api_key, pc, i, spy_df,
           results, macro_data, response, last, log, odd, runs, artifact0,
           written, cls, last_batch >>

\* No call of get_fred_data yet in this run.
NoBatch == [k \in DOMAIN series_ids |-> ""]

NoCls == [cmf |-> Frac(0, 1), rs |-> Frac(0, 1), done |-> FALSE,
          quadrant |-> "", color |-> ""]

\* An empty data directory, nothing running.
Init ==
    /\ today = StartDay
    /\ cache = [s \in SYMBOLS |-> NoFile]
    /\ macro_cache = NoMacroFile
    /\ artifact = NoArtifact
    /\ api_key = FALSE
    /\ pc = "idle"
    /\ i = 1
    /\ spy_df = <<>>
    /\ results = <<>>
    /\ macro_data = MacroList(<<>>)
    /\ response = NoResponse
    /\ last = NoCall
    /\ log = <<>>
    /\ odd = FALSE
    /\ runs = 0
    /\ artifact0 = NoArtifact
    /\ written = FALSE
    /\ cls = NoCls
    /\ last_batch = NoBatch

\* The responses the upstream may give to this request.
Responses(symbol, file, t, used) ==
    {NominalResponse(symbol, RangeFor(file), t)}
        \cup (IF used THEN {} ELSE OddResponses(symbol, RangeFor(file), t))

IsOdd(symbol, file, t, resp) == resp # NominalResponse(symbol, RangeFor(file), t)

MacroBatches(used) == IF used THEN {NominalBatch} ELSE Batches

\* The clock passes midnight (between two runs: a run takes seconds).
Tick ==
    /\ pc \in {"idle", "done", "aborted"}
    /\ today < LastDay
    /\ today' = today + 1
    /\ UNCHANGED << cache, macro_cache, artifact, api_key, pc, i, spy_df,
                    results, macro_data, response, last, log, odd, runs,
                    artifact0, written, cls,
                    last_batch >>

\* ------------------------------------------------------- update_data.main
\* python update_data.py is started (by cron or by hand).
StartMain ==
    /\ pc \in {"idle", "done", "aborted"}
    /\ runs < MaxRuns
    /\ runs' = runs + 1
    /\ api_key' \in BOOLEAN
    /\ odd' = ~api_key'
    /\ pc' = "spy"
    /\ i' = 1
    /\ spy_df' = <<>>
    /\ results' = <<>>
    /\ macro_data' = MacroList(<<>>)
    /\ last' = NoCall
    /\ log' = <<>>
    /\ artifact0' = artifact
    /\ written' = FALSE
    /\ last_batch' = NoBatch
    /\ UNCHANGED << today, cache, macro_cache, artifact, response, cls >>

\* Lines 162-164: where main goes when the benchmark fetch raised.
on_spy_failure_continue == "macro"

on_spy_failure == "aborted"

\* Lines 160-164.
MainFetchSpy ==
    /\ pc = "spy"
    /\ \E resp \in Responses(BENCHMARK, cache[BENCHMARK], today, odd) :
          \E call \in {fetch_yahoo_finance(BENCHMARK, resp, cache[BENCHMARK], today)} :
              /\ cache' = [cache EXCEPT ![BENCHMARK] = call.file]
              /\ last' = call
              /\ odd' = (odd \/ IsOdd(BENCHMARK, cache[BENCHMARK], today, resp))
              /\ spy_df' = (IF call.raised THEN spy_df ELSE call.df)
              /\ pc' = (IF call.raised THEN on_spy_failure ELSE "symbols")
    /\ UNCHANGED << today, macro_cache, artifact, api_key, i, results,
                    macro_data, response, log, runs, artifact0, written, cls,
                    last_batch >>

\* Where the loop goes after the body for SECTORS[k] (an exception raised
\* in the body is caught at lines 216-218).
after_symbol_propagate(call, k) ==
    IF call.raised THEN "aborted"
    ELSE IF k = Len(SECTORS) THEN "macro" ELSE "symbols"

after_symbol_first_only(call, k) == "macro"

after_symbol(call, k) == IF k = Len(SECTORS) THEN "macro" ELSE "symbols"

LogEntry(info, call, aligned) ==
    [symbol |-> info.symbol, raised |-> call.raised, rows |-> Len(aligned)]

\* Lines 166-218, one iteration.
MainProcessSymbol ==
    /\ pc = "symbols"
    /\ LET info == SECTORS[i]
           file == cache[info.symbol]
       IN  \E resp \in Responses(info.symbol, file, today, odd) :
              \E call \in {fetch_yahoo_finance(info.symbol, resp, file, today)} :
              \E aligned \in {IF call.raised THEN <<>> ELSE align(call.df, spy_df)} :
                  /\ cache' = [cache EXCEPT ![info.symbol] = call.file]
                  /\ last' = call
                  /\ odd' = (odd \/ IsOdd(info.symbol, file, today, resp))
                  /\ results' = results \o process_symbol(info, call, aligned)
                  /\ log' = Append(log, LogEntry(info, call, aligned))
                  /\ pc' = after_symbol(call, i)
    /\ i' = i + 1
    /\ UNCHANGED << today, macro_cache, artifact, api_key, spy_df, macro_data,
                    response, runs, artifact0, written, cls,
                    last_batch >>

\* Line 220.
MainMacro ==
    /\ pc = "macro"
    /\ \E batch \in MacroBatches(odd) :
          LET got == get_fred_data(api_key, batch, macro_cache, today)
          IN  /\ macro_data' = got.ret
              /\ macro_cache' = got.file
              /\ last_batch' = batch
              /\ odd' = (odd \/ (api_key /\ batch # NominalBatch))
    /\ pc' = "write"
    /\ UNCHANGED << today, cache, artifact, api_key, i, spy_df, results,
                    response, last, log, runs, artifact0, written, cls >>

\* Lines 222-232.
MainWrite ==
    /\ pc = "write"
    /\ artifact' = final_output(results, macro_data, today)
    /\ written' = TRUE
    /\ pc' = "done"
    /\ UNCHANGED << today, cache, macro_cache, api_key, i, spy_df, results,
                    macro_data, response, last, log, odd, runs, artifact0, cls,
                    last_batch >>

Next ==
    \/ Tick
    \/ StartMain
    \/ MainFetchSpy
    \/ MainProcessSymbol
    \/ MainMacro
    \/ MainWrite

Spec == Init /\ [][Next]_vars

\* --------------------------------------------------------- main.get_data
\* GET /api/data arrives (main.py:175-176).
StartGetData ==
    /\ pc \in {"idle", "done"}
    /\ runs < MaxRequests
    /\ runs' = runs + 1
    /\ pc' = "g_spy"
    /\ i' = 1
    /\ spy_df' = <<>>
    /\ results' = <<>>
    /\ response' = NoResponse
    /\ last' = NoCall
    /\ log' = <<>>
    /\ odd' = FALSE
    /\ artifact0' = artifact
    /\ written' = FALSE
    /\ last_batch' = NoBatch
    /\ UNCHANGED << today, cache, macro_cache, artifact, api_key, macro_data,
                    cls >>

\* main.py:179-182.
GetDataFetchSpy ==
    /\ pc = "g_spy"
    /\ \E resp \in Responses(BENCHMARK, cache[BENCHMARK], today, odd) :
          \E call \in {fetch_yahoo_finance(BENCHMARK, resp, cache[BENCHMARK], today)} :
              /\ cache' = [cache EXCEPT ![BENCHMARK] = call.file]
              /\ last' = call
              /\ odd' = (odd \/ IsOdd(BENCHMARK, cache[BENCHMARK], today, resp))
              /\ spy_df' = (IF call.raised THEN spy_df ELSE call.df)
              /\ response' = (IF call.raised THEN ErrorResponse ELSE response)
              /\ pc' = (IF call.raised THEN "done" ELSE "g_symbols")
    /\ UNCHANGED << today, macro_cache, artifact, api_key, i, results,
                    macro_data, log, runs, artifact0, written, cls,
                    last_batch >>

\* main.py:184-239, one iteration.
GetDataProcessSymbol ==
    /\ pc = "g_symbols"
    /\ LET info == SECTORS[i]
           file == cache[info.symbol]
       IN  \E resp \in Responses(info.symbol, file, today, odd) :
              \E call \in {fetch_yahoo_finance(info.symbol, resp, file, today)} :
              \E aligned \in {IF call.raised THEN <<>> ELSE align(call.df, spy_df)} :
                  /\ cache' = [cache EXCEPT ![info.symbol] = call.file]
                  /\ last' = call
                  /\ odd' = (odd \/ IsOdd(info.symbol, file, today, resp))
                  /\ results' = results \o process_symbol(info, call, aligned)
                  /\ log' = Append(log, LogEntry(info, call, aligned))
                  /\ pc' = (IF i = Len(SECTORS) THEN "g_return" ELSE "g_symbols")
    /\ i' = i + 1
    /\ UNCHANGED << today, macro_cache, artifact, api_key, spy_df, macro_data,
                    response, runs, artifact0, written, cls,
                    last_batch >>

\* main.py:241-244: the returned object, with the call of get_fred_data.
GetDataReturn ==
    /\ pc = "g_return"
    /\ \E batch \in MacroBatches(odd) :
          \E got \in {get_fred_data(api_key, batch, macro_cache, today)} :
              /\ response' = DataResponse(results, got.ret)
              /\ macro_cache' = got.file
              /\ last_batch' = batch
              /\ odd' = (odd \/ (api_key /\ batch # NominalBatch))
    /\ pc' = "done"
    /\ UNCHANGED << today, cache, artifact, api_key, i, spy_df, results,
                    macro_data, last, log, runs, artifact0, written, cls >>

\* The data directory after one run of update_data.main on StartDay in
\* which every upstream request got its nominal response.
SeededFile(symbol) ==
    fetch_yahoo_finance(symbol, NominalResponse(symbol, "1y", StartDay),
                        NoFile, StartDay).file

SeededMacro == get_fred_data(TRUE, NominalBatch, NoMacroFile, StartDay)

RECURSIVE SeededResults(_)
SeededResults(k) ==
    IF k = 0 THEN <<>>
    ELSE SeededResults(k - 1)
         \o process_symbol(
               SECTORS[k],
               fetch_yahoo_finance(SECTORS[k].symbol,
                   NominalResponse(SECTORS[k].symbol, "1y", StartDay),
                   NoFile, StartDay),
               align(read_csv(SeededFile(SECTORS[k].symbol)),
                     read_csv(SeededFile(BENCHMARK))))

SeededArtifact ==
    final_output(SeededResults(Len(SECTORS)), SeededMacro.ret, StartDay)

\* The server starts on an empty data directory or on a seeded one, with
\* or without the credential in its environment.
InitServe ==
    /\ today = StartDay
    /\ \/ /\ cache = [s \in SYMBOLS |-> NoFile]
          /\ macro_cache = NoMacroFile
          /\ artifact = NoArtifact
       \/ /\ cache = [s \in SYMBOLS |-> SeededFile(s)]
          /\ macro_cache = SeededMacro.file
          /\ artifact = SeededArtifact
    /\ api_key \in BOOLEAN
    /\ pc = "idle"
    /\ i = 1
    /\ spy_df = <<>>
    /\ results = <<>>
    /\ macro_data = MacroList(<<>>)
    /\ response = NoResponse
    /\ last = NoCall
    /\ log = <<>>
    /\ odd = FALSE
    /\ runs = 0
    /\ artifact0 = artifact
    /\ written = FALSE
    /\ cls = NoCls
    /\ last_batch = NoBatch

NextServe ==
    \/ Tick
    \/ StartGetData
    \/ GetDataFetchSpy
    \/ GetDataProcessSymbol
    \/ GetDataReturn

SpecServe == InitServe /\ [][NextServe]_vars

\* ------------------------------------------------- classify on its own
\* The arguments range over the halves -Grid/2 .. Grid/2.
InitClassify ==
    /\ today = StartDay
    /\ cache = [s \in SYMBOLS |-> NoFile]
    /\ macro_cache = NoMacroFile
    /\ artifact = NoArtifact
    /\ api_key = FALSE
    /\ pc = "idle"
    /\ i = 1
    /\ spy_df = <<>>
    /\ results = <<>>
    /\ macro_data = MacroList(<<>>)
    /\ response = NoResponse
    /\ last = NoCall
    /\ log = <<>>
    /\ odd = FALSE
    /\ runs = 0
    /\ artifact0 = NoArtifact
    /\ written = FALSE
    /\ last_batch = NoBatch
    /\ \E a \in -Grid..Grid, b \in -Grid..Grid :
          cls = [cmf |-> Frac(a, 2), rs |-> Frac(b, 2), done |-> FALSE,
                 quadrant |-> "", color |-> ""]

Classify ==
    /\ ~cls.done
    /\ \E q \in {classify(cls.cmf, cls.rs)} :
          cls' = [cls EXCEPT !.done = TRUE, !.quadrant = q.quadrant,
                             !.color = q.color]
    /\ UNCHANGED << today, cache, macro_cache, artifact, api_key, pc, i,
                    spy_df, results, macro_data, response, last, log, odd,
                    runs, artifact0, written,
                    last_batch >>

NextClassify == Classify

SpecClassify == InitClassify /\ [][NextClassify]_vars

\* ------------------------------------- classify and publish on their own
\* Lines 194-215 for one symbol: current_cmf ranges over -1 .. 1 in steps
\* of 1/Grid and over the small values k/FineDen, rs_pct_change over the
\* halves and over the small values k/FineDen.
InitPublish ==
    /\ today = StartDay
    /\ cache = [s \in SYMBOLS |-> NoFile]
    /\ macro_cache = NoMacroFile
    /\ artifact = NoArtifact
    /\ api_key = FALSE
    /\ pc = "idle"
    /\ i = 1
    /\ spy_df = <<>>
    /\ results = <<>>
    /\ macro_data = MacroList(<<>>)
    /\ response = NoResponse
    /\ last = NoCall
    /\ log = <<>>
    /\ odd = FALSE
    /\ runs = 0
    /\ artifact0 = NoArtifact
    /\ written = FALSE
    /\ last_batch = NoBatch
    /\ \E a \in -Grid..Grid, b \in -Grid..Grid :
       \E da \in {Grid, FineDen}, db \in {2, FineDen} :
          cls = [cmf |-> Frac(a, da), rs |-> Frac(b, db), done |-> FALSE,
                 quadrant |-> "", color |-> ""]

Publish ==
    /\ ~cls.done
    /\ \E q \in {classify(cls.cmf, cls.rs)} :
          /\ cls' = [cls EXCEPT !.done = TRUE, !.quadrant = q.quadrant,
                                !.color = q.color]
          /\ results' = results \o <<Published(SECTORS[i], cls.cmf, cls.rs, q)>>
    /\ UNCHANGED << today, cache, macro_cache, artifact, api_key, pc, i,
                    spy_df, macro_data, response, last, log, odd, runs,
                    artifact0, written, last_batch >>

NextPublish == Publish

SpecPublish == InitPublish /\ [][NextPublish]_vars

\* ================================================================ claims
Symbols(entries) == {entries[k].symbol : k \in DOMAIN entries}

\* The last row of s dated d.
LastOn(s, d) ==
    s[CHOOSE k \in DOMAIN s :
        /\ s[k].date = d
        /\ \A j \in (k + 1)..Len(s) : s[j].date # d]

Called == last.symbol # ""

\* The cached series the last call of fetch_yahoo_finance started from.
Cached == read_csv(last.before)

\* C1: when the benchmark refresh fails because the upstream attempt failed
\* and no benchmark cache exists, the run ends there and the published
\* artifact is the one from before the run (or still absent).
C1_BenchmarkFailureKeepsArtifact ==
    (last.symbol = BENCHMARK /\ ~last.fetched /\ ~last.before.exists)
        => /\ last.raised
           /\ pc = "aborted"
           /\ ~written
           /\ artifact = artifact0

C1_Witness ==
    /\ pc = "aborted"
    /\ last.symbol = BENCHMARK
    /\ ~last.fetched
    /\ ~last.before.exists
    /\ artifact = artifact0

C3_CacheFileMeansNoError ==
    Called =>
        /\ last.raised => (~last.fetched /\ ~last.before.exists)
        /\ (~last.fetched /\ last.before.exists)
              => /\ ~last.raised
                 /\ last.df = SelectSeq(Cached, LAMBDA r : r.date < last.today)

\* C4: when refresh succeeds with a non-empty cached series and a newly
\* fetched series, the result is strictly ascending by date without
\* duplicate dates, and every date present in both carries the newly
\* fetched record's values.
C4_MergeKeepsNewest ==
    (Called /\ last.fetched /\ Cached # <<>>)
        => /\ StrictlyAscending(last.df)
           /\ \A d \in Dates(Cached) \cap Dates(last.new_df) :
                 \E k \in DOMAIN last.df :
                    /\ last.df[k].date = d
                    /\ last.df[k] = LastOn(last.new_df, d)

C4_Witness ==
    /\ Called
    /\ last.fetched
    /\ \E d \in Dates(Cached) \cap Dates(last.new_df) :
          /\ LastOn(Cached, d) # LastOn(last.new_df, d)
          /\ \E k \in DOMAIN last.df : last.df[k] = LastOn(last.new_df, d)

\* C5: after any refresh calls and for any upstream responses, every
\* persisted cache and every series returned by refresh is strictly
\* ascending by date, without duplicate dates.
C5_SeriesStrictlyAscending ==
    /\ \A s \in SYMBOLS : StrictlyAscending(read_csv(cache[s]))
    /\ StrictlyAscending(last.df)

\* C6: no series returned or persisted by refresh holds a record dated on
\* or after the day of that refresh, and no cache ever holds a record dated
\* today or later.
C6_NoSameDayRecord ==
    /\ Called => \A k \in DOMAIN last.df : last.df[k].date < last.today
    /\ (Called /\ last.fetched) =>
          \A k \in DOMAIN last.file.lines : last.file.lines[k][1] < last.today
    /\ \A s \in SYMBOLS :
          \A k \in DOMAIN cache[s].lines : cache[s].lines[k][1] < today

C6_Witness ==
    /\ Called
    /\ last.fetched
    /\ last.today \in Dates(last.new_df)
    /\ last.df # <<>>
    /\ cache[last.symbol] = to_csv(last.df)

\* C7: in a run whose benchmark refresh succeeded, a tracked symbol whose
\* refresh raises is absent from `sectors`, the symbols after it are still
\* processed, the run is not aborted, and the artifact is written.
C7_SymbolFailureIsContained ==
    /\ pc = "aborted" => (last.symbol = BENCHMARK /\ last.raised)
    /\ \A k \in DOMAIN log :
          /\ log[k].symbol = SECTORS[k].symbol
          /\ log[k].raised => log[k].symbol \notin Symbols(results)
    /\ pc \in {"macro", "write", "done"} => Len(log) = Len(SECTORS)
    /\ pc = "done" => (written /\ artifact.exists /\ artifact.sectors = results)

C7_Witness ==
    /\ pc = "done"
    /\ written
    /\ log[1].raised
    /\ ~log[2].raised
    /\ Symbols(artifact.sectors) = {SECTORS[2].symbol}

\* C8: a tracked symbol whose aligned pair has fewer than 22 rows is absent
\* from `sectors`, and every symbol in `sectors` had an aligned pair of at
\* least 22 rows.
C8_MinimumRows ==
    /\ \A k \in DOMAIN log :
          log[k].symbol \in Symbols(results)
              <=> (~log[k].raised /\ log[k].rows >= 22)
    /\ pc = "done" =>
          \A k \in DOMAIN log :
             log[k].symbol \in Symbols(artifact.sectors)
                 <=> (~log[k].raised /\ log[k].rows >= 22)

C8_Witness ==
    /\ pc = "done"
    /\ \E k \in DOMAIN log :
          ~log[k].raised /\ log[k].rows = 21
             /\ log[k].symbol \notin Symbols(artifact.sectors)
    /\ \E k \in DOMAIN log :
          log[k].rows = 22 /\ log[k].symbol \in Symbols(artifact.sectors)

\* C9: classify yields one of the four labels with the colour the decision
\* table pairs with it, and cmf = 0, rsMomentum = 0 yields Deteriorating.
C9_ClassifyTotal ==
    cls.done =>
        /\ <<cls.quadrant, cls.color>> \in
              { <<"Leading / Accumulation", "green">>,
                <<"Weakening / Distribution", "red">>,
                <<"Improving", "orange">>,
                <<"Deteriorating", "yellow">> }
        /\ (cls.cmf.n = 0 /\ cls.rs.n = 0) => cls.quadrant = "Deteriorating"

C9_Witness ==
    /\ cls.done
    /\ cls.cmf.n = 0
    /\ cls.rs.n = 0
    /\ cls.quadrant = "Deteriorating"
    /\ cls.color = "yellow"

PureReadStep ==
    pc \in {"g_spy", "g_symbols", "g_return"} =>
        /\ cache' = cache
        /\ macro_cache' = macro_cache
        /\ pc' = "done" =>
              IF artifact.exists
              THEN /\ response'.kind = "data"
                   /\ response'.sectors = artifact.sectors
                   /\ response'.macro = artifact.macro
              ELSE response'.kind = "error"

\* C10: get_data is a pure read of the published artifact: its steps write
\* no price cache and no macro cache, and it returns the artifact's content
\* when the artifact exists and the "not yet generated" signal otherwise.
C10_GetDataIsPureRead == [][PureReadStep]_vars

\* The series whose request gave an observation in the last macro batch.
Succeeded(batch) == {k \in DOMAIN series_ids : batch[k] # "fail"}

\* The step of main that calls get_fred_data with the credential present.
MacroRefresh == pc = "macro" /\ pc' = "write" /\ api_key

\* The records are those of the lines of the macro cache file.
SameContent(items, lines) ==
    /\ Len(items) = Len(lines)
    /\ \A k \in DOMAIN lines :
          /\ items[k].indicator = lines[k][1]
          /\ items[k].value.text = lines[k][2]
          /\ items[k].date = lines[k][3]
          /\ items[k].series = lines[k][4]

C11_Step ==
    (MacroRefresh /\ Succeeded(last_batch') = {}) =>
        /\ macro_cache' = macro_cache
        /\ macro_data'.is_list
        /\ IF macro_cache.exists
           THEN SameContent(macro_data'.items, macro_cache.lines)
           ELSE macro_data'.items = <<>>

\* C11: with the credential present and a batch of zero observations, the
\* macro refresh returns the content of the persisted macro cache and leaves
\* the cache as it was, or returns an empty sequence when there is no macro
\* cache; it returns a sequence on every such call (it never raises).
C11_ZeroBatchFallsBackToCache == [][C11_Step]_vars

C11_Witness ==
    /\ pc = "write"
    /\ api_key
    /\ Succeeded(last_batch) = {}
    /\ macro_cache.exists
    /\ macro_data.items # <<>>
    /\ SameContent(macro_data.items, macro_cache.lines)

C12_Step ==
    (MacroRefresh /\ Succeeded(last_batch') # {}) =>
        /\ macro_cache'.exists
        /\ Len(macro_cache'.lines) = Cardinality(Succeeded(last_batch'))
        /\ \A k \in DOMAIN series_ids :
              (k \in Succeeded(last_batch'))
                 <=> (\E j \in DOMAIN macro_cache'.lines :
                         macro_cache'.lines[j][4] = series_ids[k].series)
        /\ \A j \in DOMAIN macro_cache'.lines :
              macro_cache'.lines[j][3] = today - 1
        /\ macro_data'.is_list
        /\ SameContent(macro_data'.items, macro_cache'.lines)
        /\ \A j \in DOMAIN macro_data'.items :
              ~macro_data'.items[j].value.is_number

\* C12: a batch with at least one observation replaces the macro cache: the
\* cache afterwards holds one record per series whose request succeeded, all
\* of this batch, none of a series whose request failed (whatever the prior
\* cache held), and the refresh returns exactly those observations.
C12_BatchReplacesCache == [][C12_Step]_vars

\* The previous run published two series (so the cache held both), and this
\* run's batch lost the first of them.
C12_Witness ==
    /\ pc = "write"
    /\ api_key
    /\ runs = 2
    /\ Len(artifact.macro.items) = Len(series_ids)
    /\ last_batch[1] = "fail"
    /\ Succeeded(last_batch) # {}
    /\ Len(macro_cache.lines) = Cardinality(Succeeded(last_batch))
    /\ \A j \in DOMAIN macro_cache.lines :
          macro_cache.lines[j][4] # series_ids[1].series

\* The last call of fetch_yahoo_finance returned the series of a sector.
SectorReturned == Called /\ last.symbol # BENCHMARK /\ ~last.raised

\* C13: for the sector series and the benchmark series that
\* fetch_yahoo_finance returned, the aligned pair has at most as many rows
\* as the shorter of the two, and each of its dates is a date of both.
C13_AlignedWithinInputs ==
    SectorReturned =>
        \A aligned \in {align(last.df, spy_df)} :
            /\ Len(aligned) <= Len(last.df)
            /\ Len(aligned) <= Len(spy_df)
            /\ \A k \in DOMAIN aligned :
                  aligned[k].date \in Dates(last.df) \cap Dates(spy_df)

\* C14 as stated: classify yields Deteriorating / yellow exactly for the
\* pairs with cmf <= 0 and rsMomentum > 0.
C14_DeterioratingIsFourthRow ==
    cls.done =>
        /\ (cls.quadrant = "Deteriorating")
              <=> (cls.cmf.n <= 0 /\ cls.rs.n > 0)
        /\ (cls.color = "yellow") <=> (cls.cmf.n <= 0 /\ cls.rs.n > 0)

\* C14: classify yields Deteriorating / yellow exactly for the pairs with
\* cmf = 0 (whatever rsMomentum is) or with cmf < 0 and rsMomentum >= 0:
\* the region cmf <= 0, rsMomentum > 0 and, besides it, the boundary pairs
\* the three rows above leave over.
C14_DeterioratingIsWhatIsLeft ==
    cls.done =>
        /\ (cls.quadrant = "Deteriorating")
              <=> (cls.cmf.n = 0 \/ (cls.cmf.n < 0 /\ cls.rs.n >= 0))
        /\ (cls.color = "yellow") <=> (cls.quadrant = "Deteriorating")

C14_Witness ==
    /\ cls.done
    /\ cls.cmf.n < 0
    /\ cls.rs.n = 0
    /\ cls.quadrant = "Deteriorating"
    /\ cls.color = "yellow"

\* (current - past) / past * 100 for the RS line (close / close_spy) at the
\* aligned rows cur and past.
Momentum(cur, past) ==
    Frac((cur.close * past.close_spy - past.close * cur.close_spy) * 100,
         past.close * cur.close_spy)

\* The published rs_momentum of the last processed sector is the momentum
\* between the last aligned row and the row `back` observations earlier.
MomentumLooksBack(back) ==
    SectorReturned =>
        \A aligned \in {align(last.df, spy_df)} :
            Len(aligned) >= MinRows =>
                /\ results # <<>>
                /\ results[Len(results)].symbol = last.symbol
                /\ results[Len(results)].rs_momentum =
                      round(Momentum(aligned[Len(aligned)],
                                     aligned[Len(aligned) - back]), RsScale)

\* C15 as stated: past is the RS line's value 21 observations before the
\* last row (row n-21 of n), so that all 22 rows are used.
C15_PastIs21Earlier == MomentumLooksBack(21)

\* C15: for an aligned pair of n >= 22 rows the RS momentum is
\* (current - past) / past * 100 with current the RS line's value at the
\* last row and past its value 20 observations earlier (row n-20 of n, the
\* 21st row from the end); the first of the 22 required rows is not used.
C15_PastIs20Earlier == MomentumLooksBack(20)

\* A published momentum for which the two readings differ.
C15_Witness ==
    /\ SectorReturned
    /\ results # <<>>
    /\ results[Len(results)].symbol = last.symbol
    /\ \E aligned \in {align(last.df, spy_df)} :
          /\ Len(aligned) >= MinRows
          /\ round(Momentum(aligned[Len(aligned)],
                            aligned[Len(aligned) - 20]), RsScale)
                # round(Momentum(aligned[Len(aligned)],
                                 aligned[Len(aligned) - 21]), RsScale)
          /\ results[Len(results)].rs_momentum =
                round(Momentum(aligned[Len(aligned)],
                               aligned[Len(aligned) - 20]), RsScale)

\* C16: fetch_yahoo_finance requests range 1y exactly when the symbol has no
\* cached series to merge with (no cache file, or one of zero records), and
\* range 5d exactly when it has one.
C16_LongRangeIffNothingCached ==
    Called =>
        /\ (last.range_val = "1y") <=> (Cached = <<>>)
        /\ (last.range_val = "5d") <=> (Cached # <<>>)

\* The dates persisted in the cache file of a symbol.
Persisted(file) == {file.lines[k][1] : k \in DOMAIN file.lines}

C17_Step == \A s \in SYMBOLS : Persisted(cache[s]) \subseteq Persisted(cache'[s])

\* C17: the persisted series of a symbol only grows: whatever the upstream
\* answers (success, failure, records with missing fields) and with the
\* clock never going back, every date in a symbol's cache before a step is
\* in it after the step.
C17_PersistedDatesOnlyGrow == [][C17_Step]_vars

\* A refresh of a non-empty cache that added a date and kept the cached
\* dates the short window no longer covers.
C17_Witness ==
    /\ Called
    /\ last.fetched
    /\ Persisted(last.before) # {}
    /\ Persisted(last.before) \ Dates(last.new_df) # {}
    /\ cache[last.symbol] = last.file
    /\ Persisted(last.before) \subseteq Persisted(last.file)
    /\ Persisted(last.file) \ Persisted(last.before) # {}

\* main is between its start and its last step.
Running == pc \in {"spy", "symbols", "macro", "write"}

\* C18: a run of main writes the artifact once, as its last step, after
\* every tracked symbol was processed or skipped and get_fred_data returned;
\* a run that has not reached that step (or stopped at the benchmark) has
\* left the artifact as it found it and has written the caches of the
\* symbols it processed.
C18_ArtifactWrittenLast ==
    /\ (Running \/ pc = "aborted") => (~written /\ artifact = artifact0)
    /\ (Running /\ Called /\ last.fetched) => cache[last.symbol] = last.file
    /\ pc = "write" => Len(log) = Len(SECTORS)
    /\ written =>
          /\ pc = "done"
          /\ Len(log) = Len(SECTORS)
          /\ Symbols(log) = Symbols(SECTORS)
          /\ artifact.exists
          /\ artifact.sectors = results
          /\ artifact.macro = macro_data
          /\ artifact.last_updated <= today

\* A run stopped after the benchmark and the first sector: both caches
\* updated, the artifact of the previous run still in place.
C18_Witness ==
    /\ pc = "symbols"
    /\ Len(log) = 1
    /\ last.fetched
    /\ cache[last.symbol] = last.file
    /\ last.file # last.before
    /\ artifact0.exists
    /\ artifact = artifact0
    /\ ~written

\* The decision table on the signs of two numerators.
TableQuadrant(c, r) ==
    IF c > 0 /\ r > 0 THEN "Leading / Accumulation"
    ELSE IF c < 0 /\ r < 0 THEN "Weakening / Distribution"
    ELSE IF c > 0 /\ r <= 0 THEN "Improving"
    ELSE "Deteriorating"

TableColor(c, r) ==
    IF c > 0 /\ r > 0 THEN "green"
    ELSE IF c < 0 /\ r < 0 THEN "red"
    ELSE IF c > 0 /\ r <= 0 THEN "orange"
    ELSE "yellow"

\* C19 as stated: the quadrant and color of a published record are the ones
\* the decision table assigns to its published (rounded) cmf and
\* rs_momentum.
C19_LabelOfPublishedNumbers ==
    \A k \in DOMAIN results :
        /\ results[k].quadrant =
              TableQuadrant(results[k].cmf.n, results[k].rs_momentum.n)
        /\ results[k].color =
              TableColor(results[k].cmf.n, results[k].rs_momentum.n)

\* C19: the quadrant and color of a published record are the ones the
\* decision table assigns to the unrounded cmf and rs momentum; they are
\* also the ones it assigns to the published numbers whenever rounding
\* turned neither a nonzero cmf nor a nonzero rs momentum into zero.
C19_LabelOfUnroundedNumbers ==
    (cls.done /\ results # <<>>) =>
        LET e == results[Len(results)]
        IN  /\ e.quadrant = TableQuadrant(cls.cmf.n, cls.rs.n)
            /\ e.color = TableColor(cls.cmf.n, cls.rs.n)
            /\ e.cmf.d = CmfScale
            /\ e.rs_momentum.d = RsScale
            /\ ((cls.cmf.n # 0 => e.cmf.n # 0)
                  /\ (cls.rs.n # 0 => e.rs_momentum.n # 0))
                 => /\ e.quadrant = TableQuadrant(e.cmf.n, e.rs_momentum.n)
                    /\ e.color = TableColor(e.cmf.n, e.rs_momentum.n)

\* A record published as cmf 0.0 with the label of a positive cmf.
C19_Witness ==
    /\ cls.done
    /\ results # <<>>
    /\ cls.cmf.n > 0
    /\ cls.rs.n > 0
    /\ results[Len(results)].cmf.n = 0
    /\ results[Len(results)].quadrant = "Leading / Accumulation"
    /\ results[Len(results)].color = "green"

\* A step of main that calls fetch_yahoo_finance: last' is that call.
C20_Step ==
    (pc \in {"spy", "symbols"}) =>
        /\ last'.before = cache[last'.symbol]
        /\ macro_cache' = macro_cache
        /\ artifact' = artifact
        /\ \A s \in SYMBOLS : s # last'.symbol => cache'[s] = cache[s]
        /\ ~last'.fetched => cache' = cache

\* C20: a call of fetch_yahoo_finance whose upstream attempt failed leaves
\* the symbol's cache file as it was, whether it returns the cached series
\* or raises; and no call writes the cache of another symbol, the macro
\* cache or the artifact.
C20_FetchFrame == [][C20_Step]_vars

\* A failed attempt answered from the cache, the cache file untouched.
C20_Witness ==
    /\ Called
    /\ ~last.fetched
    /\ ~last.raised
    /\ last.df # <<>>
    /\ last.before.exists
    /\ cache[last.symbol] = last.before
    /\ last.file = last.before

====
